---- MODULE Spec2Model ----
(***************************************************************************)
(* The call/session lifecycle controller of components/Agent.tsx: the      *)
(* Agent component's React state, the external user/profile rows it reads  *)
(* and writes, the voice agent it starts and whose events it receives, the *)
(* feedback submission and the navigation it issues.                       *)
(*                                                                         *)
(* An optional value (number | null) is a sequence of length <= 1:         *)
(* NULL is << >> and the number n is << n >>.                              *)
(*                                                                         *)
(* Every `await` of handleCall is one step: the store applies the request  *)
(* (or fails it) and the handler resumes up to its next await.  A state    *)
(* change of callStatus or messages re-runs the finish effect (its         *)
(* dependency list, line 142) within the same step.                        *)
(***************************************************************************)
EXTENDS Integers, Sequences, FiniteSets, TLC

\* ------------------------------------------------------------------ bounds
MaxCalls == 2        \* handleCall invocations (clicks on the Call button)
MaxMessages == 2     \* final transcript turns recorded
MaxCredits == 2      \* largest stored balance at mount
MaxNav == 3          \* router.push calls recorded
MaxInterviewIds == 3 \* interview identifiers a feedback page is asked for

\* --------------------------------------------------------------- constants
ExperiencePerCall == 20

NULL == << >>
Some(n) == << n >>
Val(o) == o[1]

INACTIVE == "INACTIVE"
CONNECTING == "CONNECTING"
ACTIVE == "ACTIVE"
FINISHED == "FINISHED"
CallStatus == {INACTIVE, CONNECTING, ACTIVE, FINISHED}

DashboardRoute == "/dashboard"
FeedbackRoute == "/dashboard/interview/id/feedback"

SessionTypes == {"generate", "interview"}
Roles == {"user", "assistant"}
Transcripts == {"hello"}
\* the messages of the event stream: transcripts (partial or final) and others
Message ==
    [type : {"transcript"}, transcriptType : {"partial", "final"},
     role : Roles, transcript : Transcripts]
    \cup [type : {"function-call"}, transcriptType : {"none"},
          role : {"assistant"}, transcript : Transcripts]

VARIABLES
    callStatus,        \* useState<CallStatus>
    messages,          \* useState<SavedMessage[]>
    isSpeaking,        \* useState(false)
    lastMessage,       \* useState<string>("")
    credits,           \* useState<number | null>(null)
    isLoadingCredits,  \* useState(true)
    type,              \* prop: session type
    userId,            \* prop: TRUE iff a user id was passed
    fetchPc,           \* fetchCredits: "idle" | "select" | "done"
    dbCredits,         \* users.credits of the user row
    dbExperience,      \* profiles.experience of the user row (optional)
    dbCredits0,        \* history: users.credits at mount
    dbExperience0,     \* history: profiles.experience at mount
    calls,             \* the handleCall invocations, in click order
    vapiStarts,        \* vapi.start invocations
    vapiStops,         \* vapi.stop invocations
    callStartEvts,     \* call-start events delivered
    callEndEvts,       \* call-end events delivered
    feedbackCalls,     \* createFeedback invocations
    feedbackPending,   \* createFeedback invocations not yet answered
    nav,               \* router.push targets, in order
    finishes,          \* history: transitions of callStatus into FINISHED
    finalEvts,         \* history: final transcript messages delivered
    interviews,        \* feedback page: the stored interview of each id
    pagePc,            \* feedback page: "idle" | "getInterviewById" | "done"
    pageId,            \* feedback page: params.id of the request
    pageOut            \* feedback page: what the request ended in

agentVars == <<callStatus, messages, isSpeaking, lastMessage, credits,
               isLoadingCredits, type, userId, fetchPc, dbCredits,
               dbExperience, dbCredits0, dbExperience0, calls, vapiStarts,
               vapiStops, callStartEvts, callEndEvts, feedbackCalls,
               feedbackPending, nav, finishes, finalEvts>>
pageVars == <<interviews, pagePc, pageId, pageOut>>
vars == <<agentVars, pageVars>>

props == <<type, userId, dbCredits0, dbExperience0>>
uiVars == <<callStatus, messages, isSpeaking, lastMessage, credits,
            isLoadingCredits>>
storeVars == <<dbCredits, dbExperience>>
vapiVars == <<vapiStarts, vapiStops, callStartEvts, callEndEvts>>
feedbackVars == <<feedbackCalls, feedbackPending, nav>>

\* ---------------------------------------------------------- feedback page
InterviewIds == 1 .. MaxInterviewIds
InterviewRoles == {"frontend", "backend"}
\* the stored interview records of one identifier
Interview(id) == [id : {id}, role : InterviewRoles]

NoOutput == [kind |-> "none", route |-> "", interviewId |-> 0,
             interview |-> NULL]
\* redirect(route)
Redirect(route) == [kind |-> "redirect", route |-> route, interviewId |-> 0,
                    interview |-> NULL]
\* <FeedbackClient interviewId={id} interview={interview} />
FeedbackClient(id, interview) ==
    [kind |-> "render", route |-> "", interviewId |-> id,
     interview |-> interview]

\* no feedback page is requested while the Agent component is observed
PageAtRest ==
    /\ interviews = [id \in InterviewIds |-> NULL]
    /\ pagePc = "idle"
    /\ pageId = 0
    /\ pageOut = NoOutput

\* ------------------------------------------------------------------- Init
AgentInit ==
    /\ callStatus = INACTIVE
    /\ messages = << >>
    /\ isSpeaking = FALSE
    /\ lastMessage = ""
    /\ credits = NULL
    /\ isLoadingCredits = TRUE
    /\ type \in SessionTypes
    /\ userId \in BOOLEAN
    /\ fetchPc = IF userId THEN "select" ELSE "done"
    /\ dbCredits \in -1 .. MaxCredits
    /\ dbExperience \in {NULL, Some(0)}
    /\ dbCredits0 = dbCredits
    /\ dbExperience0 = dbExperience
    /\ calls = << >>
    /\ vapiStarts = 0
    /\ vapiStops = 0
    /\ callStartEvts = 0
    /\ callEndEvts = 0
    /\ feedbackCalls = 0
    /\ feedbackPending = 0
    /\ nav = << >>
    /\ finishes = 0
    /\ finalEvts = 0

Init == AgentInit /\ PageAtRest

\* ----------------------------------------------------------- fetchCredits
\* the select of users.credits answers: an error leaves credits null
FetchCreditsReturns(error) ==
    /\ fetchPc = "select"
    /\ fetchPc' = "done"
    /\ credits' = IF error THEN credits ELSE Some(dbCredits)
    /\ isLoadingCredits' = FALSE
    /\ UNCHANGED <<callStatus, messages, isSpeaking, lastMessage, props, pageVars,
                   storeVars, calls, vapiVars, feedbackVars, finishes, finalEvts>>

\* ------------------------------------------------------ the finish effect
\* `changed`: a dependency of the effect (messages, callStatus) changed
LastMessageAfter(newMessages, changed) ==
    IF changed /\ Len(newMessages) > 0
    THEN newMessages[Len(newMessages)].content
    ELSE lastMessage

\* mutant: the effect without its check of the session type
SubmitsFeedbackAlways(sessionType) == TRUE

\* does the effect submit feedback, for this session type
SubmitsFeedback(sessionType) == sessionType # "generate"

FinishEffect(newMessages, newStatus, changed) ==
    /\ lastMessage' = LastMessageAfter(newMessages, changed)
    /\ IF changed /\ newStatus = FINISHED
       THEN IF SubmitsFeedback(type)
            THEN /\ Len(nav) < MaxNav
                 /\ feedbackCalls' = feedbackCalls + 1
                 /\ feedbackPending' = feedbackPending + 1
                 /\ nav' = Append(nav, FeedbackRoute)
            ELSE /\ Len(nav) < MaxNav
                 /\ nav' = Append(nav, DashboardRoute)
                 /\ UNCHANGED <<feedbackCalls, feedbackPending>>
       ELSE UNCHANGED <<feedbackCalls, feedbackPending, nav>>

\* setCallStatus(newStatus) followed by the effect of the re-render
SetCallStatus(newStatus) ==
    /\ callStatus' = newStatus
    /\ finishes' = IF newStatus = FINISHED /\ callStatus # FINISHED
                   THEN finishes + 1 ELSE finishes
    /\ FinishEffect(messages, newStatus, newStatus # callStatus)

\* createFeedback answers
CreateFeedbackReturns(success) ==
    /\ feedbackPending > 0
    /\ Len(nav) < MaxNav
    /\ feedbackPending' = feedbackPending - 1
    /\ nav' = Append(nav, IF success THEN FeedbackRoute ELSE DashboardRoute)
    /\ UNCHANGED <<uiVars, props, pageVars,
                   fetchPc, storeVars, calls, vapiVars,
                   feedbackCalls, finishes, finalEvts>>

\* -------------------------------------------------------------- handleCall
\* the Call button is rendered unless the call is active, and is disabled
\* while credits === 0 or the balance is still loading
CallButtonEnabled ==
    /\ callStatus # ACTIVE
    /\ ~(credits = Some(0) \/ isLoadingCredits)

\* mutant: the guard with the button's test, credits === 0
HandleCallRejectsZeroOnly(c) == c = NULL \/ Val(c) = 0

\* the guard of handleCall, on the credits of the render that was clicked
HandleCallRejects(c) == c = NULL \/ Val(c) <= 0

\* the payload of the credit update
CreditsUpdate(c) == c - 1

\* experience ?? 0
ExperienceOrZero(e) == IF e = NULL THEN 0 ELSE Val(e)

\* the payload of the experience update
NewExperience(e) == ExperienceOrZero(e) + ExperiencePerCall

\* setCredits((prev) => (prev !== null ? prev - 1 : prev))
SetCreditsDecrement(prev) == IF prev # NULL THEN Some(Val(prev) - 1) ELSE prev

\* mutant: the check of the credit update's error left out
StartAllowedIgnoresCreditError(error, experror) == ~experror

\* mutant: the check of the experience update's error left out
StartAllowedIgnoresExperienceError(error, experror) == ~error

\* the checks of experror and error that precede setCallStatus(CONNECTING)
StartAllowed(error, experror) == ~experror /\ ~error

\* the program positions of one handleCall invocation
InFlight == {"updateCredits", "selectExperience", "updateExperience"}

\* an invocation that has returned holds no locals
Returned(pc) ==
    [pc |-> pc, credits |-> NULL, error |-> FALSE, newExperience |-> 0,
     creditsBefore |-> 0, experienceBefore |-> NULL,
     creditsAfter |-> 0, experienceAfter |-> NULL]

NewCall(c) ==
    IF HandleCallRejects(c)
    THEN Returned("rejected")
    ELSE [pc |-> "updateCredits",
          credits |-> c,                    \* credits of the closure
          error |-> FALSE,                  \* error of the credit update
          newExperience |-> 0,
          creditsBefore |-> dbCredits,      \* history: the store at the click
          experienceBefore |-> dbExperience,
          creditsAfter |-> 0,               \* history: the store at the start
          experienceAfter |-> NULL]

\* a click on the Call button: the guard, then the credit update is sent
HandleCall ==
    /\ CallButtonEnabled
    /\ Len(calls) < MaxCalls
    /\ calls' = Append(calls, NewCall(credits))
    /\ UNCHANGED <<uiVars, props, pageVars,
                   fetchPc, storeVars, vapiVars, feedbackVars,
                   finishes, finalEvts>>

\* the credit update answers; the experience select is sent
UpdateCreditsReturns(i, error) ==
    /\ calls[i].pc = "updateCredits"
    /\ dbCredits' = IF error THEN dbCredits
                    ELSE CreditsUpdate(Val(calls[i].credits))
    /\ calls' = [calls EXCEPT ![i] = [@ EXCEPT !.pc = "selectExperience",
                                               !.error = error]]
    /\ UNCHANGED <<uiVars, props, pageVars,
                   fetchPc, dbExperience, vapiVars,
                   feedbackVars, finishes, finalEvts>>

\* the experience select answers: an error returns, otherwise the
\* experience update is sent
SelectExperienceReturns(i, fetchExpError) ==
    /\ calls[i].pc = "selectExperience"
    /\ calls' = [calls EXCEPT ![i] =
                    IF fetchExpError
                    THEN Returned("aborted")
                    ELSE [@ EXCEPT !.pc = "updateExperience",
                                   !.newExperience =
                                       NewExperience(dbExperience)]]
    /\ UNCHANGED <<uiVars, props, pageVars,
                   fetchPc, storeVars, vapiVars, feedbackVars,
                   finishes, finalEvts>>

\* the experience update answers; then the error checks, setCredits,
\* setCallStatus(CONNECTING) and vapi.start
UpdateExperienceReturns(i, experror) ==
    /\ calls[i].pc = "updateExperience"
    /\ dbExperience' = IF experror THEN dbExperience
                       ELSE Some(calls[i].newExperience)
    /\ IF StartAllowed(calls[i].error, experror)
       THEN /\ credits' = SetCreditsDecrement(credits)
            /\ SetCallStatus(CONNECTING)
            /\ vapiStarts' = vapiStarts + 1
            /\ calls' = [calls EXCEPT ![i] =
                            [@ EXCEPT !.pc = "started",
                                      !.credits = NULL,
                                      !.creditsAfter = dbCredits,
                                      !.experienceAfter = dbExperience']]
       ELSE /\ calls' = [calls EXCEPT ![i] = Returned("aborted")]
            /\ UNCHANGED <<callStatus, lastMessage, credits, vapiStarts,
                           feedbackVars, finishes, finalEvts>>
    /\ UNCHANGED <<messages, isSpeaking, isLoadingCredits, props, pageVars,
                   fetchPc,
                   dbCredits, vapiStops, callStartEvts, callEndEvts,
                   finalEvts>>

\* vapi.start resolves, or rejects (ok = FALSE): nothing follows the await,
\* so handleCall ends either way and no state of the component changes
VapiStartReturns(i, ok) ==
    /\ calls[i].pc = "started"
    /\ calls' = [calls EXCEPT ![i].pc = "done"]
    /\ UNCHANGED <<uiVars, props, pageVars,
                   fetchPc, storeVars, vapiVars, feedbackVars,
                   finishes, finalEvts>>

\* -------------------------------------------------------- handleDisconnect
\* the End button is rendered while the call is active
HandleDisconnect ==
    /\ callStatus = ACTIVE
    /\ SetCallStatus(FINISHED)
    /\ vapiStops' = vapiStops + 1
    /\ UNCHANGED <<messages, isSpeaking, credits, isLoadingCredits, props, pageVars,
                   fetchPc, storeVars, calls, vapiStarts, callStartEvts,
                   callEndEvts, finalEvts>>

\* ------------------------------------------------- the voice agent's events
\* a call of the voice agent is live between its call-start and its call-end
CallLive == callEndEvts < callStartEvts

OnCallStart ==
    /\ callStartEvts < vapiStarts
    /\ callStartEvts' = callStartEvts + 1
    /\ SetCallStatus(ACTIVE)
    /\ UNCHANGED <<messages, isSpeaking, credits, isLoadingCredits, props, pageVars,
                   fetchPc, storeVars, calls, vapiStarts, vapiStops,
                   callEndEvts, finalEvts>>

OnCallEnd ==
    /\ CallLive
    /\ callEndEvts' = callEndEvts + 1
    /\ SetCallStatus(FINISHED)
    /\ UNCHANGED <<messages, isSpeaking, credits, isLoadingCredits, props, pageVars,
                   fetchPc, storeVars, calls, vapiStarts, vapiStops,
                   callStartEvts, finalEvts>>

\* mutant: a partial transcript recorded like a final one
IsFinalTranscriptAnyTranscript(message) == message.type = "transcript"

\* message.type === "transcript" && message.transcriptType === "final"
IsFinalTranscript(message) ==
    message.type = "transcript" /\ message.transcriptType = "final"

\* mutant: a turn equal to the last one is dropped
AppendTurnDeduplicating(prev, newMessage) ==
    IF Len(prev) > 0 /\ prev[Len(prev)] = newMessage
    THEN prev
    ELSE Append(prev, newMessage)

\* setMessages((prev) => [...prev, newMessage])
AppendTurn(prev, newMessage) == Append(prev, newMessage)

OnMessage(message) ==
    /\ CallLive
    /\ IF IsFinalTranscript(message)
       THEN /\ Len(messages) < MaxMessages
            /\ messages' = AppendTurn(messages,
                               [role |-> message.role,
                                content |-> message.transcript])
            /\ FinishEffect(messages', callStatus, TRUE)
            /\ finalEvts' = finalEvts + 1
       ELSE UNCHANGED <<messages, lastMessage, feedbackVars, finalEvts>>
    /\ UNCHANGED <<callStatus, isSpeaking, credits, isLoadingCredits, props, pageVars,
                   fetchPc, storeVars, calls, vapiVars, finishes>>

OnSpeechStart ==
    /\ CallLive
    /\ isSpeaking' = TRUE
    /\ UNCHANGED <<callStatus, messages, lastMessage, credits,
                   isLoadingCredits, props, pageVars,
                   fetchPc, storeVars, calls,
                   vapiVars, feedbackVars, finishes, finalEvts>>

OnSpeechEnd ==
    /\ CallLive
    /\ isSpeaking' = FALSE
    /\ UNCHANGED <<callStatus, messages, lastMessage, credits,
                   isLoadingCredits, props, pageVars,
                   fetchPc, storeVars, calls,
                   vapiVars, feedbackVars, finishes, finalEvts>>

\* mutant: an error event treated as the end of the call
OnErrorEndsCall ==
    /\ vapiStarts > 0
    /\ SetCallStatus(FINISHED)
    /\ UNCHANGED <<messages, isSpeaking, credits, isLoadingCredits, props, pageVars,
                   fetchPc, storeVars, calls, vapiVars, finalEvts>>

OnError ==
    /\ vapiStarts > 0
    /\ UNCHANGED <<uiVars, props, pageVars,
                   fetchPc, storeVars, calls, vapiVars,
                   feedbackVars, finishes, finalEvts>>

Next ==
    \/ \E error \in BOOLEAN : FetchCreditsReturns(error)
    \/ HandleCall
    \/ \E i \in 1 .. Len(calls), error \in BOOLEAN :
           UpdateCreditsReturns(i, error)
    \/ \E i \in 1 .. Len(calls), fetchExpError \in BOOLEAN :
           SelectExperienceReturns(i, fetchExpError)
    \/ \E i \in 1 .. Len(calls), experror \in BOOLEAN :
           UpdateExperienceReturns(i, experror)
    \/ \E i \in 1 .. Len(calls), ok \in BOOLEAN : VapiStartReturns(i, ok)
    \/ HandleDisconnect
    \/ OnCallStart
    \/ OnCallEnd
    \/ \E message \in Message : OnMessage(message)
    \/ OnSpeechStart
    \/ OnSpeechEnd
    \/ OnError
    \/ \E success \in BOOLEAN : CreateFeedbackReturns(success)

Spec == Init /\ [][Next]_vars

\* ------------------------------------------------ FeedbackPage (page.tsx)
\* getInterviewById(id): the stored record of the identifier, or null
GetInterviewById(id) == interviews[id]

\* mutant: the check of the fetched interview left out
InterviewMissingNever(interview) == FALSE

\* !interview
InterviewMissing(interview) == interview = NULL

\* what FeedbackPage ends in once getInterviewById has answered
FeedbackPageResult(id, interview) ==
    IF InterviewMissing(interview)
    THEN Redirect(DashboardRoute)
    ELSE FeedbackClient(id, interview)

\* the page is requested for an identifier; getInterviewById is called
FeedbackPage(id) ==
    /\ pagePc \in {"idle", "done"}
    /\ pagePc' = "getInterviewById"
    /\ pageId' = id
    /\ pageOut' = NoOutput
    /\ UNCHANGED <<agentVars, interviews>>

\* getInterviewById answers; the page redirects or renders
GetInterviewByIdReturns ==
    /\ pagePc = "getInterviewById"
    /\ pagePc' = "done"
    /\ pageOut' = FeedbackPageResult(pageId, GetInterviewById(pageId))
    /\ UNCHANGED <<agentVars, interviews, pageId>>

\* the Agent component is not mounted while the page is observed
AgentAtRest ==
    /\ AgentInit
    /\ type = "interview"
    /\ userId
    /\ dbCredits = 0
    /\ dbExperience = NULL

PageInit ==
    /\ AgentAtRest
    /\ interviews \in [InterviewIds ->
                          {NULL} \cup {Some(r) : r \in
                              UNION {Interview(id) : id \in InterviewIds}}]
    /\ \A id \in InterviewIds :
           interviews[id] # NULL => Val(interviews[id]).id = id
    /\ pagePc = "idle"
    /\ pageId = 0
    /\ pageOut = NoOutput

PageNext ==
    \/ \E id \in InterviewIds : FeedbackPage(id)
    \/ GetInterviewByIdReturns

PageSpec == PageInit /\ [][PageNext]_vars


\* ================================================================ claims
CallIds == 1 .. Len(calls)
IsStarted(i) == calls[i].pc \in {"started", "done"}
Turn(message) == [role |-> message.role, content |-> message.transcript]
NoCredits(c) == c = NULL \/ Val(c) <= 0

\* C1: a click on Call while the component's credits are null or <= 0 is
\* rejected: that invocation returns at once, and the step writes neither
\* the stored balance nor the stored experience, starts no voice call and
\* leaves callStatus and credits as they were; a rejected invocation never
\* does anything later.
C1_RejectedStartMutatesNothing ==
    [][/\ (Len(calls') = Len(calls) + 1 /\ NoCredits(credits))
            => /\ calls'[Len(calls')].pc = "rejected"
               /\ UNCHANGED <<dbCredits, dbExperience, vapiStarts,
                              callStatus, credits>>
       /\ \A i \in CallIds :
              calls[i].pc = "rejected" => calls'[i] = calls[i]]_vars

\* a rejected click, with the component's credits null or <= 0
C1_Witness ==
    /\ NoCredits(credits)
    /\ ~isLoadingCredits
    /\ \E i \in CallIds : calls[i].pc = "rejected"
    /\ dbCredits = dbCredits0 /\ dbExperience = dbExperience0
    /\ vapiStarts = 0 /\ callStatus = INACTIVE

\* C2 (as claimed): every invocation that set CONNECTING and started the
\* voice agent found a stored balance > 0 when it sent its credit update.
C2_StartNeedsPositiveStoredBalance ==
    \A i \in CallIds : IsStarted(i) => calls[i].creditsBefore > 0

\* C3 (as claimed): for every invocation that started a session, the stored
\* balance after the start is 1 less, and the stored experience 20 more
\* (an unset experience counting as 0), than when it was invoked.
C3_StartTakesOneCreditAddsTwenty ==
    \A i \in CallIds :
        IsStarted(i) =>
            /\ calls[i].creditsAfter = calls[i].creditsBefore - 1
            /\ calls[i].experienceAfter =
                   Some(ExperienceOrZero(calls[i].experienceBefore)
                        + ExperiencePerCall)

\* C4 (as claimed): once no invocation is in flight, the stored balance has
\* decreased by the number of sessions started.  Stated for runs in which
\* no store call failed (no invocation aborted), the reading most
\* favourable to the claim.
C4_DecreaseEqualsStartedSessions ==
    (\A i \in CallIds : calls[i].pc \in {"started", "rejected"})
        => dbCredits0 - dbCredits = vapiStarts

\* C5 (as claimed): in a session whose type is not "generate", createFeedback
\* has been called exactly once per transition into FINISHED.
C5_OneFeedbackPerFinish ==
    type # "generate" => feedbackCalls = finishes

\* C6: in a "generate" session createFeedback is never called, every entry
\* into FINISHED issues a navigation, and every navigation issued is to the
\* dashboard route.
C6_GenerateNeverSubmitsFeedback ==
    type = "generate" =>
        /\ feedbackCalls = 0
        /\ feedbackPending = 0
        /\ \A k \in 1 .. Len(nav) : nav[k] = DashboardRoute
        /\ Len(nav) >= finishes

\* a finished "generate" session
C6_Witness ==
    /\ type = "generate"
    /\ callStatus = FINISHED
    /\ Len(messages) > 0
    /\ nav = <<DashboardRoute>>

\* C7: the transcript changes only by one turn appended at its end; every
\* final transcript message appends its (role, text), also when it equals
\* the turn before it, so there are as many turns as final messages.
C7_TranscriptAppendOnly ==
    [][/\ messages' # messages =>
              \E r \in Roles, t \in Transcripts :
                  messages' = Append(messages, [role |-> r, content |-> t])
       /\ \A m \in Message :
              (IsFinalTranscript(m) /\ OnMessage(m))
                  => messages' = Append(messages, Turn(m))
       /\ Len(messages') = finalEvts']_vars

\* two equal final messages gave two turns, after a turn of another role
C7_Witness ==
    /\ Len(messages) = MaxMessages
    /\ finalEvts = MaxMessages
    /\ \E k \in 1 .. Len(messages) - 1 : messages[k] = messages[k + 1]

\* C8 (as claimed): once callStatus is FINISHED no step changes it.
C8_FinishedIsTerminal ==
    [][callStatus = FINISHED => callStatus' = FINISHED]_vars

\* C9: callStatus becomes CONNECTING, and vapi.start is called, only in the
\* step of an invocation whose credit update, experience select and
\* experience update all succeeded.
C9_StartOnlyAfterStoreSuccess ==
    [][/\ \A i \in CallIds :
              /\ (calls'[i].pc = "started" /\ ~IsStarted(i))
                     => /\ calls[i].pc = "updateExperience"
                        /\ ~calls[i].error
                        /\ UpdateExperienceReturns(i, FALSE)
              /\ (calls'[i].pc = "updateExperience"
                  /\ calls[i].pc # "updateExperience")
                     => SelectExperienceReturns(i, FALSE)
              /\ (calls'[i].pc = "selectExperience"
                  /\ calls[i].pc # "selectExperience")
                     => (calls'[i].error <=> UpdateCreditsReturns(i, TRUE))
       /\ ((callStatus' = CONNECTING /\ callStatus # CONNECTING)
           \/ vapiStarts' # vapiStarts)
              => \E i \in CallIds :
                     /\ calls'[i].pc = "started" /\ ~IsStarted(i)
                     /\ callStatus' = CONNECTING
                     /\ vapiStarts' = vapiStarts + 1]_vars

\* one invocation started a session, another was aborted by a store error
C9_Witness ==
    /\ callStatus = CONNECTING
    /\ vapiStarts = 1
    /\ \E i, j \in CallIds : IsStarted(i) /\ calls[j].pc = "aborted"

\* C10: when the credit update or the experience update of an invocation
\* failed, the invocation returns with callStatus, credits and the voice
\* agent untouched, and the store keeps what the invocation has written:
\* the balance is not put back, and an experience update that succeeded
\* after a failed credit update stays.
C10_FailedStartAbortsWithoutRollback ==
    [][\A i \in CallIds :
           /\ UpdateExperienceReturns(i, TRUE)
                  => /\ calls'[i].pc = "aborted"
                     /\ UNCHANGED <<callStatus, credits, vapiStarts,
                                    dbCredits, dbExperience>>
           /\ (calls[i].error /\ UpdateExperienceReturns(i, FALSE))
                  => /\ calls'[i].pc = "aborted"
                     /\ UNCHANGED <<callStatus, credits, vapiStarts,
                                    dbCredits>>
                     /\ dbExperience' = Some(calls[i].newExperience)]_vars

\* two aborted invocations: one left its decrement, one its experience
C10_Witness ==
    /\ Len(calls) = 2
    /\ \A i \in CallIds : calls[i].pc = "aborted"
    /\ callStatus = INACTIVE
    /\ credits = Some(dbCredits0)
    /\ dbCredits = dbCredits0 - 1
    /\ dbExperience = Some(ExperienceOrZero(dbExperience0) + ExperiencePerCall)

\* C11 (as claimed): callStatus becomes ACTIVE only in a call-start event
\* received while callStatus is CONNECTING.
C11_ActiveOnlyFromConnecting ==
    [][(callStatus' = ACTIVE /\ callStatus # ACTIVE)
           => (OnCallStart /\ callStatus = CONNECTING)]_vars

\* C12: callStatus becomes FINISHED only in a call-end event or in
\* handleDisconnect, and each of the two leaves it FINISHED whatever it was;
\* an error, message, speech-start or speech-end event and the return of
\* vapi.start (resolved or rejected) leave callStatus as it was.
C12_FinishedOnlyByCallEndOrDisconnect ==
    [][/\ (callStatus' = FINISHED /\ callStatus # FINISHED)
              => (OnCallEnd \/ HandleDisconnect)
       /\ (OnCallEnd \/ HandleDisconnect) => callStatus' = FINISHED
       /\ (\/ OnError \/ OnSpeechStart \/ OnSpeechEnd
           \/ \E m \in Message : OnMessage(m)
           \/ \E i \in CallIds, ok \in BOOLEAN : VapiStartReturns(i, ok))
              => callStatus' = callStatus]_vars

\* FINISHED was entered by the call-end event from CONNECTING (a second
\* start had set it) after vapi.start returned
C12_Witness ==
    /\ callStatus = FINISHED
    /\ callEndEvts = 1
    /\ vapiStops = 0
    /\ finishes = 1
    /\ \E i \in CallIds : calls[i].pc = "done"

\* C13 (as claimed): in a session whose type is not "generate", every entry
\* into FINISHED pushes the feedback route at once, whatever createFeedback
\* will answer; a failed createFeedback pushes the dashboard route and is
\* not called again; and once a failure has pushed the dashboard route no
\* further navigation is issued.
C13_FeedbackRouteThenDashboardLast ==
    [][type # "generate" =>
          /\ (callStatus' = FINISHED /\ callStatus # FINISHED)
                 => (nav' = Append(nav, FeedbackRoute)
                     /\ feedbackCalls' = feedbackCalls + 1)
          /\ CreateFeedbackReturns(FALSE)
                 => (nav' = Append(nav, DashboardRoute)
                     /\ feedbackCalls' = feedbackCalls)
          /\ (\E k \in 1 .. Len(nav) : nav[k] = DashboardRoute)
                 => nav' = nav]_vars

\* C14: a request of the feedback page for an identifier with no stored
\* record ends in a redirect to the dashboard route and renders nothing; for
\* an identifier with a record it renders the feedback view with that
\* identifier and that record and does not redirect.
C14_FeedbackPageRedirectsWhenMissing ==
    pagePc = "done" =>
        IF interviews[pageId] = NULL
        THEN pageOut = Redirect(DashboardRoute)
        ELSE /\ pageOut.kind = "render"
             /\ pageOut.interviewId = pageId
             /\ pageOut.interview = interviews[pageId]
             /\ Val(pageOut.interview).id = pageId

\* a request for an identifier without a record, while another has one
C14_Witness ==
    /\ pagePc = "done"
    /\ interviews[pageId] = NULL
    /\ pageOut.kind = "redirect"
    /\ \E id \in InterviewIds : interviews[id] # NULL

\* C15 (as claimed): every start request that passes the guard is preceded
\* by a read of the stored balance of its own, so the accepted start
\* requests never outnumber the reads of users.credits made so far.
C15_BalanceReadBeforeEveryStart ==
    Cardinality({i \in CallIds : calls[i].pc # "rejected"})
        <= (IF userId /\ fetchPc = "done" THEN 1 ELSE 0)

\* C16 (as claimed): the Call button is disabled whenever the credits held
\* by the component are null or <= 0.
C16_StartControlDisabledWithoutCredits ==
    NoCredits(credits) => ~CallButtonEnabled

\* C17 (as claimed): vapi.start is never invoked while callStatus is
\* CONNECTING or ACTIVE, nor while an earlier handleCall is still awaiting
\* its store calls.
C17_OneVoiceCallPerLifecycle ==
    [][vapiStarts' # vapiStarts =>
          /\ callStatus \notin {CONNECTING, ACTIVE}
          /\ \A i \in CallIds :
                 (calls[i].pc = "updateExperience" /\ calls'[i].pc = "started")
                     => \A j \in 1 .. (i - 1) : calls[j].pc \notin InFlight]_vars

\* C18 (as claimed): from a stored balance >= 0 at the fetch, the credits
\* held by the component are never negative.
C18_LocalCreditsNeverNegative ==
    (dbCredits0 >= 0 /\ credits # NULL) => Val(credits) >= 0

\* C19 (as claimed): once every accepted handleCall has started its call
\* (none aborted, none still awaiting), the stored experience is the initial
\* experience plus 20 for each started call.
C19_ExperienceIncreaseNotLost ==
    (\A i \in CallIds : calls[i].pc \in {"started", "done", "rejected"})
        => ExperienceOrZero(dbExperience)
               = ExperienceOrZero(dbExperience0)
                     + ExperiencePerCall * vapiStarts

\* C20: a message event that is not a transcript or whose transcript is not
\* final, and every speech-start, speech-end and error event, changes neither
\* messages nor callStatus; a final transcript message changes messages (by
\* its turn) and never callStatus.
C20_OnlyFinalTranscriptsChangeTranscript ==
    [][/\ (OnSpeechStart \/ OnSpeechEnd \/ OnError)
              => (messages' = messages /\ callStatus' = callStatus)
       /\ \A m \in Message :
              OnMessage(m) =>
                  /\ callStatus' = callStatus
                  /\ messages' =
                         IF m.type = "transcript" /\ m.transcriptType = "final"
                         THEN Append(messages, Turn(m))
                         ELSE messages]_vars

\* the agent is speaking after one final transcript was recorded in an
\* active call
C20_Witness ==
    /\ callStatus = ACTIVE
    /\ isSpeaking = TRUE
    /\ Len(messages) = 1
    /\ finalEvts = 1
====
